---- MODULE Spec2Model ----
(***************************************************************************)
(* Model of app.py: the detection interpreter (detect_and_classify), the   *)
(* ledger upsert (update_fresh_count) and the upload handler (main) that   *)
(* saves the workbook.                                                     *)
(*                                                                         *)
(* Strings the code splits or capitalises are sequences of one-character   *)
(* strings.  A confidence is an integer number of hundredths (0.5 is 50).  *)
(* A timestamp is the clock reading in whole seconds, which is what        *)
(* strftime("%Y-%m-%d %H:%M:%S") keeps of datetime.now().                  *)
(* A data row of the sheet is a record; the header row is row 1 of the     *)
(* sheet and is not part of the sequence, so sheet row k+1 is element k.   *)
(***************************************************************************)
EXTENDS Integers, Sequences, FiniteSets, TLC

VARIABLES
    file,         \* the workbook on disk: [exists, rows]
    sheet,        \* data rows of the in-memory workbook's active sheet
    pc,           \* position of the script run: idle, loop, returned, done
    dets,         \* the model's output for the image: <<confidence, class index>>
    i,            \* index of the next detection the loop handles
    predictions,  \* detect_and_classify's result so far: [none, list]
    messages,     \* what the run has shown to the user, in order
    now,          \* the clock, in seconds
    runs,         \* number of script runs so far
    calls,        \* history: the update_fresh_count calls of this run
    startFile,    \* history: the workbook on disk when this run loaded it
    committed,    \* history: the calls of every run that saved, in order
    saves,        \* history: number of workbook.save calls in this run
    crashed,      \* history: this run ended by a failure before line 124
    seen,         \* number of detections the model has put out so far, over all runs
    file0,        \* history: the workbook on disk when the session began
    lost          \* history: the calls of every run that failed before line 124

vars == <<file, sheet, pc, dets, i, predictions, messages, now, runs, calls,
          startFile, committed, saves, crashed, seen, file0, lost>>

----------------------------------------------------------------------------
(* Bounds of the model *)

\* detections the model puts out over the whole session, all images together
MaxDets == 2
\* runs of the script
MaxRuns == 2
\* last reading of the clock; the first is 1
MaxTime == 2
\* direct calls of update_fresh_count in SpecUpsert
MaxCalls == 3

----------------------------------------------------------------------------
(* Constants of the program *)

label_encoder ==
    << <<"a","p","p","l","e","_","f","r","e","s","h">>,
       <<"a","p","p","l","e","_","s","t","a","l","e">>,
       <<"o","n","i","o","n","_","f","r","e","s","h">>,
       <<"o","n","i","o","n","_","s","t","a","l","e">>,
       <<"c","a","r","r","o","t","_","f","r","e","s","h">>,
       <<"c","a","r","r","o","t","_","s","t","a","l","e">>,
       <<"t","o","m","a","t","o","_","f","r","e","s","h">>,
       <<"t","o","m","a","t","o","_","s","t","a","l","e">>
    >>

apple == <<"a","p","p","l","e">>
onion == <<"o","n","i","o","n">>
carrot == <<"c","a","r","r","o","t">>
tomato == <<"t","o","m","a","t","o">>
kiwi == <<"k","i","w","i">>

life_apple == 7
life_onion == 10
life_carrot == 5
life_tomato == 3

expected_life_span ==
    [p \in {apple, onion, carrot, tomato} |->
        IF p = apple THEN life_apple
        ELSE IF p = onion THEN life_onion
        ELSE IF p = carrot THEN life_carrot
        ELSE life_tomato]

CONFIDENCE_THRESHOLD == 50

----------------------------------------------------------------------------
(* Cell values: a cell holds an integer or a string *)

IntCell(n) == [t |-> "int", n |-> n, s |-> ""]
StrCell(s) == [t |-> "str", n |-> 0, s |-> s]

----------------------------------------------------------------------------
(* str.split and str.capitalize on sequences of characters *)

RECURSIVE IndexOf(_, _, _)
IndexOf(s, c, k) ==
    IF k > Len(s) THEN 0
    ELSE IF s[k] = c THEN k
    ELSE IndexOf(s, c, k + 1)

RECURSIVE Split(_, _)
Split(s, c) ==
    LET k == IndexOf(s, c, 1) IN
    IF k = 0 THEN <<s>>
    ELSE <<SubSeq(s, 1, k - 1)>> \o Split(SubSeq(s, k + 1, Len(s)), c)

LowerLetters ==
    <<"a","b","c","d","e","f","g","h","i","j","k","l","m",
      "n","o","p","q","r","s","t","u","v","w","x","y","z">>
UpperLetters ==
    <<"A","B","C","D","E","F","G","H","I","J","K","L","M",
      "N","O","P","Q","R","S","T","U","V","W","X","Y","Z">>

ToUpper(c) ==
    LET k == IndexOf(LowerLetters, c, 1) IN
    IF k = 0 THEN c ELSE UpperLetters[k]

ToLower(c) ==
    LET k == IndexOf(UpperLetters, c, 1) IN
    IF k = 0 THEN c ELSE LowerLetters[k]

Capitalize(s) ==
    [k \in 1..Len(s) |-> IF k = 1 THEN ToUpper(s[k]) ELSE ToLower(s[k])]

\* f"{confidence:.2f}" of a confidence given in hundredths: the digits shown
Format2f(c) == <<c \div 100, ".", (c \div 10) % 10, c % 10>>

----------------------------------------------------------------------------
(* The workbook: load (lines 33-40) and save (line 130) *)

Row(sno, product, fresh, time, life) ==
    [sno |-> sno, product |-> product, fresh |-> fresh, time |-> time, life |-> life]

NoFile == [exists |-> FALSE, rows |-> <<>>]

\* openpyxl.load_workbook, or a new workbook holding the header row alone
Load(f) == IF f.exists THEN f.rows ELSE <<>>

\* workbook.save(excel_file)
Save(sh) == [exists |-> TRUE, rows |-> sh]

\* sheet.max_row: the header row and the data rows
MaxRow_DataOnly(sh) == Len(sh)
MaxRow(sh) == Len(sh) + 1

----------------------------------------------------------------------------
(* update_fresh_count (lines 45-63) *)

Lifespan_IgnoreFresh(product, is_fresh) ==
    IF product \in DOMAIN expected_life_span
    THEN IntCell(expected_life_span[product])
    ELSE StrCell("Unknown")
\* line 46
Lifespan(product, is_fresh) ==
    IF ~is_fresh THEN StrCell("N/A")
    ELSE IF product \in DOMAIN expected_life_span
         THEN IntCell(expected_life_span[product])
         ELSE StrCell("Unknown")

RECURSIVE FindRow_From(_, _, _)
FindRow_From(sh, product, k) ==
    IF k > Len(sh) THEN 0
    ELSE IF sh[k].product = product THEN k
    ELSE FindRow_From(sh, product, k + 1)

FindRow_Min3(sh, product) == FindRow_From(sh, product, 2)
\* lines 50-52, 57: the first data row whose Product cell equals product, 0 if none
FindRow(sh, product) == FindRow_From(sh, product, 1)

UpdateRow_AlwaysCount(row, is_fresh, t, lifespan) ==
    [row EXCEPT !.fresh = @ + 1, !.time = t, !.life = lifespan]
UpdateRow_TimeIfFresh(row, is_fresh, t, lifespan) ==
    [row EXCEPT !.fresh = IF is_fresh THEN @ + 1 ELSE @,
                !.time = IF is_fresh THEN t ELSE @,
                !.life = lifespan]
\* lines 53-56
UpdateRow(row, is_fresh, t, lifespan) ==
    [row EXCEPT !.fresh = IF is_fresh THEN @ + 1 ELSE @,
                !.time = t,
                !.life = lifespan]

NewRow_CountOne(sh, product, is_fresh, t, lifespan) ==
    Row(MaxRow(sh), product, 1, t, lifespan)
\* lines 61-63
NewRow(sh, product, is_fresh, t, lifespan) ==
    Row(MaxRow(sh), product, IF is_fresh THEN 1 ELSE 0, t, lifespan)

\* the sheet after update_fresh_count(product, is_fresh) at clock reading t
UpdateFreshCount(sh, product, is_fresh, t) ==
    LET lifespan == Lifespan(product, is_fresh)
        k == FindRow(sh, product)
    IN  IF k # 0
        THEN [sh EXCEPT ![k] = UpdateRow(sh[k], is_fresh, t, lifespan)]
        ELSE Append(sh, NewRow(sh, product, is_fresh, t, lifespan))

----------------------------------------------------------------------------
(* detect_and_classify (lines 66-103) *)

Keep_AboveOnly(confidence) == confidence > CONFIDENCE_THRESHOLD
\* lines 85-86: the detection is not skipped
Keep(confidence) == ~(confidence < CONFIDENCE_THRESHOLD)

\* lines 88-90: label_idx indexes a Python list, which counts from 0
Interpret(label_idx) == Split(label_encoder[label_idx + 1], "_")

IsFresh_Always(freshness) == freshness # <<>>
\* line 93
IsFresh(freshness) == freshness = <<"f","r","e","s","h">>

\* lines 97-101
Prediction(product, freshness, confidence) ==
    [Product |-> Capitalize(product),
     Freshness |-> Capitalize(freshness),
     Confidence |-> Format2f(confidence)]

Truthy_NotNone(p) == ~p.none
\* line 124: None and the empty list are both falsy
Truthy(p) == ~p.none /\ Len(p.list) > 0

----------------------------------------------------------------------------
(* Inputs *)

Confidences == {30, 50, 90}
\* class indices the model puts out: apple_fresh, apple_stale, onion_fresh
DetClasses == {0, 1, 2}
Detections == Confidences \X DetClasses

RECURSIVE SeqsUpTo(_, _)
SeqsUpTo(S, n) ==
    IF n = 0 THEN {<<>>}
    ELSE LET shorter == SeqsUpTo(S, n - 1) IN
         shorter \cup {Append(q, x) : q \in {r \in shorter : Len(r) = n - 1}, x \in S}

\* a file cv2.imread cannot decode, or the model's output for a decodable one
Images ==
    {[decodable |-> FALSE, dets |-> <<>>]}
    \cup {[decodable |-> TRUE, dets |-> d] : d \in SeqsUpTo(Detections, MaxDets)}

\* the ledger file left by an earlier session, if any
InitFiles ==
    {NoFile,
     Save(<<Row(1, onion, 0, 0, StrCell("N/A"))>>)}

Info(text) == [level |-> "info", text |-> text]
Error(text) == [level |-> "error", text |-> text]
Warning(text) == [level |-> "warning", text |-> text]
Success(text) == [level |-> "success", text |-> text]

----------------------------------------------------------------------------
(* One run of the script: lines 33-40, then main *)

Init ==
    /\ file \in InitFiles
    /\ sheet = Load(file)
    /\ pc = "idle"
    /\ dets = <<>>
    /\ i = 1
    /\ predictions = [none |-> FALSE, list |-> <<>>]
    /\ messages = <<>>
    /\ now = 1
    /\ runs = 1
    /\ calls = <<>>
    /\ startFile = file
    /\ committed = <<>>
    /\ saves = 0
    /\ crashed = FALSE
    /\ seen = 0
    /\ file0 = file
    /\ lost = <<>>

\* line 114: nothing was uploaded
NoUpload ==
    /\ pc = "idle"
    /\ pc' = "done"
    /\ UNCHANGED <<file, sheet, dets, i, predictions, messages, now, runs, calls,
                   startFile, committed, saves, crashed, seen, file0, lost>>

\* lines 114-122 and 67-75: the upload is read and decoded and the model is run
Start(img) ==
    /\ pc = "idle"
    /\ IF ~img.decodable
       THEN /\ messages' = messages \o <<Info("Processing image..."),
                                         Error("Error: Image not found.")>>
            /\ predictions' = [none |-> TRUE, list |-> <<>>]
            /\ pc' = "returned"
            /\ UNCHANGED dets
       ELSE /\ messages' = Append(messages, Info("Processing image..."))
            /\ predictions' = [none |-> FALSE, list |-> <<>>]
            /\ dets' = img.dets
            /\ pc' = "loop"
    /\ i' = 1
    /\ seen + Len(img.dets) <= MaxDets
    /\ seen' = seen + Len(img.dets)
    /\ UNCHANGED <<file, sheet, now, runs, calls, startFile, committed, saves, crashed,
                   file0, lost>>

\* lines 83-101: one iteration of the loop over the boxes
Step ==
    /\ pc = "loop"
    /\ i <= Len(dets)
    /\ LET confidence == dets[i][1]
           label_idx == dets[i][2]
       IN  IF ~Keep(confidence)
           THEN UNCHANGED <<sheet, calls, predictions>>
           ELSE LET parts == Interpret(label_idx)
                    product == parts[1]
                    freshness == parts[2]
                    is_fresh == IsFresh(freshness)
                IN  /\ Len(parts) = 2
                    /\ sheet' = UpdateFreshCount(sheet, product, is_fresh, now)
                    /\ calls' = Append(calls, <<product, is_fresh, now>>)
                    /\ predictions' =
                          [predictions EXCEPT
                              !.list = Append(@, Prediction(product, freshness, confidence))]
    /\ i' = i + 1
    /\ UNCHANGED <<file, pc, dets, messages, now, runs, startFile, committed, saves, crashed,
                   seen, file0, lost>>

\* line 103
Return ==
    /\ pc = "loop"
    /\ i > Len(dets)
    /\ pc' = "returned"
    /\ UNCHANGED <<file, sheet, dets, i, predictions, messages, now, runs, calls,
                   startFile, committed, saves, crashed, seen, file0, lost>>

\* lines 124-145
Finish ==
    /\ pc = "returned"
    /\ IF Truthy(predictions)
       THEN /\ file' = Save(sheet)
            /\ messages' = messages \o <<Info("### Detection Results"),
                                         Success("Fresh count updated and saved.")>>
            /\ committed' = committed \o calls
            /\ saves' = saves + 1
       ELSE /\ messages' = Append(messages,
                  Warning("No objects were detected in the image. Please try again."))
            /\ UNCHANGED <<file, committed, saves>>
    /\ pc' = "done"
    /\ UNCHANGED <<sheet, dets, i, predictions, now, runs, calls, startFile, crashed, seen,
                   file0, lost>>

\* the run ends before main reaches line 124: the process is killed or an
\* exception leaves main, during the loop or right after it
Fail ==
    /\ pc \in {"loop", "returned"}
    /\ pc' = "done"
    /\ crashed' = TRUE
    /\ lost' = lost \o calls
    /\ UNCHANGED <<file, sheet, dets, i, predictions, messages, now, runs, calls,
                   startFile, committed, saves, seen, file0>>

RunScript_KeepSheet ==
    /\ pc = "done"
    /\ runs < MaxRuns
    /\ runs' = runs + 1
    /\ startFile' = file
    /\ pc' = "idle"
    /\ dets' = <<>>
    /\ i' = 1
    /\ predictions' = [none |-> FALSE, list |-> <<>>]
    /\ messages' = <<>>
    /\ calls' = <<>>
    /\ saves' = 0
    /\ crashed' = FALSE
    /\ UNCHANGED <<file, sheet, now, committed, seen, file0, lost>>
\* the script runs again from its first line: lines 33-40 load the workbook anew
RunScript ==
    /\ pc = "done"
    /\ runs < MaxRuns
    /\ runs' = runs + 1
    /\ sheet' = Load(file)
    /\ startFile' = file
    /\ pc' = "idle"
    /\ dets' = <<>>
    /\ i' = 1
    /\ predictions' = [none |-> FALSE, list |-> <<>>]
    /\ messages' = <<>>
    /\ calls' = <<>>
    /\ saves' = 0
    /\ crashed' = FALSE
    /\ UNCHANGED <<file, now, committed, seen, file0, lost>>

\* datetime.now() advances; the code reads it only inside update_fresh_count
Tick ==
    /\ pc \in {"loop", "direct"}
    /\ now < MaxTime
    /\ now' = now + 1
    /\ UNCHANGED <<file, sheet, pc, dets, i, predictions, messages, runs, calls,
                   startFile, committed, saves, crashed, seen, file0, lost>>

Next ==
    \/ NoUpload
    \/ \E img \in Images : Start(img)
    \/ Step
    \/ Return
    \/ Finish
    \/ Fail
    \/ RunScript
    \/ Tick

Spec == Init /\ [][Next]_vars

----------------------------------------------------------------------------
(* update_fresh_count called directly, with any product, on any ledger the   *)
(* program can have written                                                  *)

DirectProducts == {apple, onion, kiwi}

InitSheets ==
    {<<>>,
     <<Row(1, onion, 0, 0, StrCell("N/A"))>>,
     <<Row(1, kiwi, 2, 0, StrCell("Unknown")), Row(2, apple, 1, 0, IntCell(life_apple))>>}

InitUpsert ==
    /\ sheet \in InitSheets
    /\ file = Save(sheet)
    /\ pc = "direct"
    /\ dets = <<>>
    /\ i = 1
    /\ predictions = [none |-> FALSE, list |-> <<>>]
    /\ messages = <<>>
    /\ now = 1
    /\ runs = 1
    /\ calls = <<>>
    /\ startFile = file
    /\ committed = <<>>
    /\ saves = 0
    /\ crashed = FALSE
    /\ seen = 0
    /\ file0 = file
    /\ lost = <<>>

\* lines 45-63
Call(product, is_fresh) ==
    /\ pc = "direct"
    /\ Len(calls) < MaxCalls
    /\ sheet' = UpdateFreshCount(sheet, product, is_fresh, now)
    /\ calls' = Append(calls, <<product, is_fresh, now>>)
    /\ UNCHANGED <<file, pc, dets, i, predictions, messages, now, runs,
                   startFile, committed, saves, crashed, seen, file0, lost>>

NextUpsert ==
    \/ \E product \in DirectProducts, is_fresh \in BOOLEAN : Call(product, is_fresh)
    \/ Tick

SpecUpsert == InitUpsert /\ [][NextUpsert]_vars

----------------------------------------------------------------------------
(* Vocabulary of the properties *)

Last(q) == q[Len(q)]

\* the step is one update_fresh_count call, of product c[1] with is_fresh c[2]
\* at clock reading c[3], where c is the last entry of calls'
IsCallStep == Len(calls') = Len(calls) + 1

HasRow(sh, product) == \E k \in 1..Len(sh) : sh[k].product = product

DistinctProducts(sh) ==
    \A a, b \in 1..Len(sh) : a # b => sh[a].product # sh[b].product

RowOf(sh, product) == sh[CHOOSE k \in 1..Len(sh) : sh[k].product = product]

\* the lifespan rule in the words of section 4.2
LifespanRule(product, is_fresh) ==
    IF ~is_fresh THEN StrCell("N/A")
    ELSE IF product \in DOMAIN expected_life_span
         THEN IntCell(expected_life_span[product])
         ELSE StrCell("Unknown")

CallsOf(product) == {k \in 1..Len(calls) : calls[k][1] = product}

Max(S) == CHOOSE x \in S : \A y \in S : y <= x

----------------------------------------------------------------------------
(* C1: from a ledger with pairwise distinct products (the empty one          *)
(* included), any sequence of update_fresh_count calls leaves at most one    *)
(* row per product value.                                                    *)
C1_OneRowPerProduct ==
    DistinctProducts(Load(startFile)) => DistinctProducts(sheet)

C1_Witness ==
    /\ pc = "direct"
    /\ Load(startFile) = <<>>
    /\ Len(calls) = 3
    /\ calls[1][1] = kiwi /\ calls[2][1] = apple /\ calls[3][1] = apple
    /\ Len(sheet) = 2

(* C2: freshCount of a row never decreases and is never reset: a call with   *)
(* is_fresh = TRUE for the row's product raises it by exactly 1; a call with *)
(* is_fresh = FALSE for it, or any call for another product, leaves it       *)
(* unchanged; no row disappears.                                             *)
C2_FreshCountStep ==
    [][ /\ Len(sheet') >= Len(sheet)
        /\ \A k \in 1..Len(sheet) :
              /\ sheet'[k].product = sheet[k].product
              /\ sheet'[k].fresh >= sheet[k].fresh
              /\ IsCallStep =>
                    sheet'[k].fresh =
                        IF Last(calls')[1] = sheet[k].product /\ Last(calls')[2]
                        THEN sheet[k].fresh + 1
                        ELSE sheet[k].fresh ]_vars

C2_Witness ==
    /\ pc = "direct"
    /\ Load(startFile) = <<Row(1, onion, 0, 0, StrCell("N/A"))>>
    /\ Len(calls) = 3
    /\ calls[1] = <<onion, TRUE, 1>>
    /\ calls[2][1] = onion /\ ~calls[2][2]
    /\ calls[3][1] = apple
    /\ sheet[1].fresh = 1

(* C4: a call for a product that has no row appends exactly one row at the   *)
(* end, with freshCount 1 if is_fresh and 0 otherwise, the current           *)
(* timestamp and the lifespan of the lifespan rule; every earlier row is     *)
(* unchanged and keeps its position.                                         *)
C4_InsertStep ==
    [][ (IsCallStep /\ ~HasRow(sheet, Last(calls')[1])) =>
            /\ Len(sheet') = Len(sheet) + 1
            /\ SubSeq(sheet', 1, Len(sheet)) = sheet
            /\ Last(sheet').product = Last(calls')[1]
            /\ Last(sheet').fresh = (IF Last(calls')[2] THEN 1 ELSE 0)
            /\ Last(sheet').time = now
            /\ Last(sheet').life = LifespanRule(Last(calls')[1], Last(calls')[2]) ]_vars

C4_Witness ==
    /\ pc = "direct"
    /\ Len(Load(startFile)) = 1
    /\ Len(calls) = 2
    /\ calls[1] = <<kiwi, FALSE, 1>>
    /\ calls[2] = <<apple, TRUE, 2>>
    /\ Len(sheet) = 3
    /\ sheet[2].fresh = 0 /\ sheet[3].fresh = 1

(* C5: after every call the lifespan field of the product's row follows the  *)
(* most recent call for that product: "N/A" if it was not fresh, the table   *)
(* value if it was fresh and the product is in the table, "Unknown" if it    *)
(* was fresh and the product is not in the table.                            *)
C5_LifespanOfLastCall ==
    \A product \in DirectProducts :
        CallsOf(product) # {} =>
            /\ HasRow(sheet, product)
            /\ RowOf(sheet, product).life =
                  LifespanRule(product, calls[Max(CallsOf(product))][2])

C5_Witness ==
    /\ pc = "direct"
    /\ Len(calls) = 3
    /\ calls[1][1] = kiwi /\ calls[1][2]
    /\ calls[2][1] = apple /\ calls[2][2]
    /\ calls[3][1] = apple /\ ~calls[3][2]
    /\ RowOf(sheet, kiwi).life = StrCell("Unknown")
    /\ RowOf(sheet, apple).life = StrCell("N/A")

(* C10: from a ledger holding the header row alone, the S No of the k-th     *)
(* data row is k, so the numbers are pairwise distinct and follow the order  *)
(* of first detection; no call changes the S No of a row that exists.        *)
C10_SequenceNumbers ==
    /\ [](Load(startFile) = <<>> => \A k \in 1..Len(sheet) : sheet[k].sno = k)
    /\ [][\A k \in 1..Len(sheet) : k <= Len(sheet') /\ sheet'[k].sno = sheet[k].sno]_vars

C10_Witness ==
    /\ pc = "direct"
    /\ Load(startFile) = <<>>
    /\ Len(calls) = 3
    /\ calls[1][1] = onion /\ calls[2][1] = kiwi /\ calls[3][1] = onion
    /\ Len(sheet) = 2
    /\ sheet[1].sno = 1 /\ sheet[2].sno = 2

----------------------------------------------------------------------------
(* Vocabulary of the properties about a pass over one image *)

\* the step is one iteration of the loop of detect_and_classify, over dets[i]
IsLoopStep == pc = "loop" /\ pc' = "loop" /\ i' = i + 1

\* the fixed label table, as (product, freshness) pairs by class index + 1
fresh == <<"f","r","e","s","h">>
stale == <<"s","t","a","l","e">>
LabelTable ==
    << <<apple, fresh>>, <<apple, stale>>, <<onion, fresh>>, <<onion, stale>>,
       <<carrot, fresh>>, <<carrot, stale>>, <<tomato, fresh>>, <<tomato, stale>> >>

\* the table's words as the results table shows them
Shown(word) ==
    IF word = apple THEN <<"A","p","p","l","e">>
    ELSE IF word = onion THEN <<"O","n","i","o","n">>
    ELSE IF word = carrot THEN <<"C","a","r","r","o","t">>
    ELSE IF word = tomato THEN <<"T","o","m","a","t","o">>
    ELSE IF word = fresh THEN <<"F","r","e","s","h">>
    ELSE <<"S","t","a","l","e">>

\* the detections at or above the threshold among the first n, in order
RECURSIVE AtOrAbove(_, _)
AtOrAbove(d, n) ==
    IF n = 0 THEN <<>>
    ELSE IF d[n][1] >= CONFIDENCE_THRESHOLD
         THEN Append(AtOrAbove(d, n - 1), d[n])
         ELSE AtOrAbove(d, n - 1)

\* the pass has gone through every detection and detect_and_classify returned a list
PassReturned == pc \in {"returned", "done"} /\ ~predictions.none /\ ~crashed
                /\ Len(messages) > 0

HasLevel(level) == \E k \in 1..Len(messages) : messages[k].level = level

FreshCountOf(sh, product) == IF HasRow(sh, product) THEN RowOf(sh, product).fresh ELSE 0

\* the ledger after the calls cs, by the upsert rule of section 4.2
RECURSIVE Replay(_, _)
Replay(sh, cs) ==
    IF cs = <<>> THEN sh
    ELSE LET c == Head(cs)
             rule == LifespanRule(c[1], c[2])
         IN  IF HasRow(sh, c[1])
             THEN Replay([k \in 1..Len(sh) |->
                            IF sh[k].product = c[1]
                            THEN [sno |-> sh[k].sno, product |-> c[1],
                                  fresh |-> sh[k].fresh + (IF c[2] THEN 1 ELSE 0),
                                  time |-> c[3], life |-> rule]
                            ELSE sh[k]], Tail(cs))
             ELSE Replay(Append(sh, [sno |-> Len(sh) + 1, product |-> c[1],
                                     fresh |-> IF c[2] THEN 1 ELSE 0,
                                     time |-> c[3], life |-> rule]), Tail(cs))

----------------------------------------------------------------------------
(* C3: a detection with confidence strictly below 0.5 adds no record and     *)
(* changes neither ledger; a detection at or above 0.5, 0.5 itself included, *)
(* adds one record and makes one ledger upsert.                              *)
C3_ThresholdStep ==
    [][ IsLoopStep =>
          IF dets[i][1] < 50
          THEN /\ predictions' = predictions
               /\ calls' = calls
               /\ sheet' = sheet
               /\ file' = file
          ELSE /\ Len(predictions'.list) = Len(predictions.list) + 1
               /\ Len(calls') = Len(calls) + 1
               /\ sheet' = Replay(sheet, <<Last(calls')>>)
               /\ Last(predictions'.list).Confidence = Format2f(dets[i][1]) ]_vars

C3_Witness ==
    /\ pc = "returned"
    /\ Len(dets) = 2
    /\ dets[1][1] = 30
    /\ dets[2][1] = 50
    /\ Len(predictions.list) = 1
    /\ Len(calls) = 1

C7_NoRecords ==
    /\ predictions.none =>
          /\ predictions.list = <<>>
          /\ HasLevel("error")
          /\ calls = <<>>
          /\ sheet = Load(startFile)
          /\ file = startFile
          /\ saves = 0
    /\ (PassReturned /\ predictions.list = <<>>) =>
          /\ calls = <<>>
          /\ sheet = Load(startFile)
          /\ file = startFile
          /\ saves = 0
          /\ ~HasLevel("error")
          /\ pc = "done" => (HasLevel("warning") /\ ~HasLevel("success"))

C7_Witness ==
    /\ pc = "done"
    /\ predictions.none
    /\ runs = 2
    /\ committed # <<>>
    /\ HasLevel("error")

(* C8: at every point of a pass, and so after it, the freshCount of every    *)
(* product is its value before the pass (0 without a row) plus the number of *)
(* fresh records of that product in the pass, and the lastDetectedTime of a  *)
(* product with records in the pass is the timestamp of the last of them,    *)
(* fresh or stale.                                                           *)
C8_PassTotals ==
    pc # "direct" =>
        \A product \in {apple, onion, carrot, tomato} :
            /\ FreshCountOf(sheet, product) =
                  FreshCountOf(Load(startFile), product)
                  + Cardinality({k \in CallsOf(product) : calls[k][2]})
            /\ CallsOf(product) # {} =>
                  /\ HasRow(sheet, product)
                  /\ RowOf(sheet, product).time = calls[Max(CallsOf(product))][3]

C8_Witness ==
    /\ pc = "returned"
    /\ Len(calls) = 2
    /\ calls[1] = <<onion, TRUE, 1>>
    /\ calls[2] = <<onion, TRUE, 2>>
    /\ HasRow(Load(startFile), onion)
    /\ RowOf(sheet, onion).fresh = RowOf(Load(startFile), onion).fresh + 2
    /\ RowOf(sheet, onion).time = 2

(* C9: for a decodable image the records are exactly the detections at or    *)
(* above the threshold, in detection order and without deduplication, each   *)
(* with the product and freshness the label table gives for its class index  *)
(* (shown capitalised); update_fresh_count is called once per record, in     *)
(* the same order, with is_fresh true exactly when the freshness is fresh.   *)
C9_RecordsFollowDetections ==
    (pc # "direct" /\ ~predictions.none) =>
        LET kept == AtOrAbove(dets, i - 1) IN
        /\ Len(predictions.list) = Len(kept)
        /\ Len(calls) = Len(kept)
        /\ \A k \in 1..Len(kept) :
              LET pair == LabelTable[kept[k][2] + 1] IN
              /\ predictions.list[k].Product = Shown(pair[1])
              /\ predictions.list[k].Freshness = Shown(pair[2])
              /\ predictions.list[k].Confidence = Format2f(kept[k][1])
              /\ calls[k][1] = pair[1]
              /\ calls[k][2] = (pair[2] = fresh)
        /\ PassReturned => i = Len(dets) + 1
        /\ \A label_idx \in 0..(Len(label_encoder) - 1) :
              Interpret(label_idx) = LabelTable[label_idx + 1]

C9_Witness ==
    /\ pc = "returned"
    /\ dets = << <<90, 0>>, <<90, 0>>  >>
    /\ Len(predictions.list) = 2
    /\ predictions.list[1] = predictions.list[2]
    /\ predictions.list[1].Product = <<"A","p","p","l","e">>
    /\ calls[1][2] /\ calls[2][2]

====
